---- MODULE Spec2Model ----
(***************************************************************************)
(* State-machine model of ServiceDeploymentEnv (src/environment.py).       *)
(*                                                                         *)
(* Units.  node_capacity and the rewards are floats in the source; every   *)
(* value the model draws or the code produces is a multiple of 0.5, so     *)
(* capacities and rewards are kept in HALF units (capacity 1.5 is 3,       *)
(* reward -0.5 is -1, reward +1.0 is 2).  node_occupancy only ever holds   *)
(* whole numbers (it starts at 0.0 and moves by 1.0), and is kept in       *)
(* whole units, so `occupancy < capacity` is `2 * occupancy < capacity`.   *)
(*                                                                         *)
(* RolloutBuffer (src/buffer.py) follows the environment.  Its numbers are *)
(* kept as exact fractions <<numerator, denominator>>; every value drawn   *)
(* and every intermediate result is a dyadic fraction of small magnitude,  *)
(* which float64 and float32 hold exactly, so the conversions to arrays    *)
(* and tensors change no value.                                            *)
(*                                                                         *)
(* The collection loops of train.py and demo.py come last.  They read      *)
(* only done and len(buffer); the environment runs in its smallest         *)
(* configuration there, the policy's outputs and the reward are recorded   *)
(* as fixed values in the stored transition, and the statistics that are   *)
(* only logged or printed are left out.                                    *)
(***************************************************************************)
EXTENDS Integers, FiniteSets, Sequences, TLC

\* ---- bounds of the model ------------------------------------------------
MaxNodes == 2          \* num_nodes is drawn from 1..MaxNodes
MaxCapacity == 3       \* node_capacity (half units) is drawn from 1..MaxCapacity
MaxOverrun == 1        \* step() calls allowed after the horizon was reached
MaxBufferLen == 3      \* transitions a buffer holds at most
MaxTimesteps == 3      \* --total_timesteps is drawn from -1..MaxTimesteps, and max_steps + 1
MaxRunLen == 3         \* steps in each of two runs compared under the same draws
MaxRatio == 2          \* probability ratios are drawn from 1/5, 2/5, .. MaxRatio
MaxAdvantage == 3      \* advantages are drawn from -MaxAdvantage/2 .. MaxAdvantage/2
MaxBatchSize == 4      \* batch_size is drawn from 1..MaxBatchSize
MaxEpochs == 2         \* update_epochs is drawn from 0..MaxEpochs
MaxUpdateInterval == 2 \* --update_interval is drawn from -1..MaxUpdateInterval

\* ---- program constants --------------------------------------------------
max_steps == 100       \* self.max_steps
RewardSuccess == 2     \* reward = 1.0   (half units)
RewardFailed == -2     \* reward = -1.0
RewardReject == -1     \* reward = -0.5
RewardRecovery == 1    \* reward = 0.5
FailurePenalty == -4   \* reward = -2.0 * lost_services, per lost service
Absent == -1           \* key not present in the info dict
default_max_agents == 10   \* max_agents: int = 10
demo_episodes == 10    \* for episode in range(10)

\* event_probabilities or [0.3, 0.2, 0.1, 0.1, 0.3], in tenths
default_event_probabilities == <<3, 2, 1, 1, 3>>

EVENT_TYPES ==
    <<"agent_arrival", "agent_departure", "node_failure", "node_recovery", "no_event">>

VARIABLES
    num_nodes,              \* constructor argument
    default_node_capacity,  \* constructor argument (half units)
    max_agents,             \* constructor argument
    event_probabilities,    \* constructor argument (tenths), one entry per event type
    node_status,            \* node -> 1 (active) / 0 (failed)
    node_occupancy,         \* node -> number of services on it
    node_capacity,          \* node -> capacity (half units)
    num_agents,
    current_event,
    steps,
    op,                     \* the call that produced this state: "reset" / "step";
                            \* "new" before __init__ has run, "init_error" and
                            \* "step_error" when the call raised
    action,                 \* the action that step call consulted (Absent after
                            \* reset and for the events whose branch never reads it)
    handled_event,          \* current_event as that step call found it
    prior_steps,            \* the step counter as that call found it
    reward,                 \* returned reward (half units)
    terminated,             \* returned flag
    truncated,              \* returned flag
    info                    \* returned info dict

envVars == <<num_nodes, default_node_capacity, max_agents, event_probabilities,
             node_status,
             node_occupancy, node_capacity, num_agents, current_event, steps,
             op, action, handled_event, prior_steps, reward, terminated,
             truncated, info>>

VARIABLES
    buffer,                 \* the RolloutBuffer: its six lists states, actions,
                            \* rewards, log_probs, values, dones
    call                    \* the latest call on the buffer:
                            \*   op          which call it was
                            \*   added       the transitions passed to add since the
                            \*               buffer was created or last cleared
                            \*   cleared     whether clear() has been called on it
                            \*   batch       what get() returned
                            \*   gamma, gae_lambda   the arguments of
                            \*               compute_returns_and_advantages
                            \*   returns, advantages  what it returned

bufVars == <<buffer, call>>

VARIABLES
    driver                  \* train() or quick_demo() at work:
                            \*   prog        which one: "train", "demo", "none"
                            \*   pc          where it stands
                            \*   total_timesteps, update_interval   the args
                            \*   global_step
                            \*   loop_i      iterations of `for _ in
                            \*               range(update_interval)` done
                            \*   episode     demo: the `for episode in range(10)` index
                            \*   done
                            \*   update_len  len(buffer) at the latest
                            \*               trainer.update call (Absent before
                            \*               the first)
                            \*   trained     the transitions handed to
                            \*               trainer.update so far, all calls
                            \*               together

VARIABLES
    telemetry               \* the episode statistics of train():
                            \*   followed    FALSE when they are left out of
                            \*               the picture, and then nothing below
                            \*               moves
                            \*   episode_reward, episode_length, episode_num
                            \*   episode_rewards, episode_lengths   the lists
                            \*               appended to at each episode end, the
                            \*               values writer.add_scalar is given
                            \*   env_return  the sum of the rewards env.step has
                            \*               returned since the latest env.reset
                            \*   resets      the env.reset() calls train() has made

loopVars == <<driver, telemetry>>

VARIABLES
    runs                    \* two runs of the environment under the same draws:
                            \*   phase       "first", "second"; "none" when no
                            \*               such pair is run
                            \*   tape        the draws of the first run, one entry
                            \*               per step: the action sampled, the node
                            \*               np_random.choice picked in the handler
                            \*               (Absent when it drew none), the event
                            \*               _generate_next_event drew
                            \*   first, second   the trajectory of each run: the
                            \*               observation reset returned, then per
                            \*               step (observation, action, reward,
                            \*               terminated)

runVars == <<runs>>

VARIABLES
    trainer                 \* PPOTrainer.update at work (op = "none" when it
                            \* is not looked at)

trainerVars == <<trainer>>

vars == <<envVars, bufVars, loopVars, runVars, trainerVars>>

\* no pair of runs is made
RunsIdle == runs = [phase |-> "none", tape |-> << >>, first |-> << >>, second |-> << >>]

\* the trainer is not looked at
TrainerIdle == trainer = [op |-> "none"]

\* episode_num = 0 (train.py:70), episode_reward = 0, episode_length = 0
\* (73-74) and the empty lists (59-60)
TelemetryStart(f) ==
    [followed |-> f, episode_reward |-> 0, episode_length |-> 0, episode_num |-> 0,
     episode_rewards |-> << >>, episode_lengths |-> << >>, env_return |-> 0,
     resets |-> 0]

\* no driver runs
LoopIdle ==
    /\ driver = [prog |-> "none", pc |-> "none", total_timesteps |-> 0,
              update_interval |-> 0, global_step |-> 0, loop_i |-> 0,
              episode |-> 0, done |-> FALSE, update_len |-> Absent, trained |-> 0]
    /\ telemetry = TelemetryStart(FALSE)

config == <<num_nodes, default_node_capacity, max_agents, event_probabilities>>

Nodes == 0 .. (num_nodes - 1)

Events == {EVENT_TYPES[i] : i \in 1 .. Len(EVENT_TYPES)}

Max(a, b) == IF a >= b THEN a ELSE b

RECURSIVE SumOver(_, _)
SumOver(f, S) ==
    IF S = {} THEN 0
    ELSE LET x == CHOOSE y \in S : TRUE IN f[x] + SumOver(f, S \ {x})

current_event_idx == CHOOSE i \in 1 .. Len(EVENT_TYPES) : EVENT_TYPES[i] = current_event

\* _get_observation: the one-hot event, the node flags, occupancy / capacity
\* per node and num_agents / max_agents, the quotients kept as
\* <<numerator, denominator>> (numerator and capacity both in half units)
GetObservation ==
    [event_onehot |-> [i \in 1 .. Len(EVENT_TYPES) |-> IF i = current_event_idx THEN 1 ELSE 0],
     node_status |-> node_status,
     occupancy |-> [n \in Nodes |-> <<2 * node_occupancy[n], node_capacity[n]>>],
     agents |-> <<num_agents, max_agents>>]

EmptyInfo == [deployment |-> "none", node_failure |-> Absent, node_recovery |-> Absent]

\* ---- reset ---------------------------------------------------------------
\* variant: reset leaves the node flags as they were
ResetState_KeepsStatus ==
    /\ node_status' = node_status
    /\ node_occupancy' = [n \in Nodes |-> 0]
    /\ node_capacity' = [n \in Nodes |-> default_node_capacity]
    /\ num_agents' = 0
    /\ current_event' = "no_event"
    /\ steps' = 0

\* variant: reset already draws the first event
ResetState_DrawsEvent ==
    /\ node_status' = [n \in Nodes |-> 1]
    /\ node_occupancy' = [n \in Nodes |-> 0]
    /\ node_capacity' = [n \in Nodes |-> default_node_capacity]
    /\ num_agents' = 0
    /\ current_event' \in Events
    /\ steps' = 0

ResetState ==
    /\ node_status' = [n \in Nodes |-> 1]
    /\ node_occupancy' = [n \in Nodes |-> 0]
    /\ node_capacity' = [n \in Nodes |-> default_node_capacity]
    /\ num_agents' = 0
    /\ current_event' = "no_event"
    /\ steps' = 0

Reset ==
    /\ ResetState
    /\ op' = "reset"
    /\ action' = Absent
    /\ handled_event' = "none"
    /\ prior_steps' = steps
    /\ reward' = 0
    /\ terminated' = FALSE
    /\ truncated' = FALSE
    /\ info' = EmptyInfo
    /\ UNCHANGED config

\* The state __init__ leaves behind: the attributes set from the arguments,
\* then the state its reset() call builds.
Constructed ==
    /\ node_status = [n \in Nodes |-> 1]
    /\ node_occupancy = [n \in Nodes |-> 0]
    /\ node_capacity = [n \in Nodes |-> default_node_capacity]
    /\ num_agents = 0
    /\ current_event = "no_event"
    /\ steps = 0
    /\ op = "reset"
    /\ action = Absent
    /\ handled_event = "none"
    /\ prior_steps = 0
    /\ reward = 0
    /\ terminated = FALSE
    /\ truncated = FALSE
    /\ info = EmptyInfo

EnvInit ==
    /\ num_nodes \in 1 .. MaxNodes
    /\ default_node_capacity \in 1 .. MaxCapacity
    /\ max_agents = default_max_agents
    /\ event_probabilities = default_event_probabilities
    /\ Constructed

\* ---- step: the branch taken for each current_event -----------------------
NoEffect ==
    /\ UNCHANGED <<node_status, node_occupancy, num_agents>>
    /\ reward' = 0
    /\ info' = EmptyInfo

\* variant: the capacity test written with <= instead of <
CanDeploy_AllowsFull(a) ==
    node_status[a] = 1 /\ 2 * node_occupancy[a] <= node_capacity[a]

CanDeploy(a) ==
    node_status[a] = 1 /\ 2 * node_occupancy[a] < node_capacity[a]

DeploySuccess(a) ==
    /\ node_occupancy' = [node_occupancy EXCEPT ![a] = @ + 1]
    /\ num_agents' = num_agents + 1
    /\ reward' = RewardSuccess
    /\ info' = [EmptyInfo EXCEPT !.deployment = "success"]
    /\ UNCHANGED node_status

\* variant: the agent is counted although the deployment failed
DeployFailed_StillCounts(a) ==
    /\ reward' = RewardFailed
    /\ info' = [EmptyInfo EXCEPT !.deployment = "failed"]
    /\ num_agents' = num_agents + 1
    /\ UNCHANGED <<node_status, node_occupancy>>

DeployFailed(a) ==
    /\ reward' = RewardFailed
    /\ info' = [EmptyInfo EXCEPT !.deployment = "failed"]
    /\ UNCHANGED <<node_status, node_occupancy, num_agents>>

\* variant: a reject is penalised like a failed deployment
DeployRejected_FailedPenalty(a) ==
    /\ reward' = RewardFailed
    /\ info' = [EmptyInfo EXCEPT !.deployment = "rejected"]
    /\ UNCHANGED <<node_status, node_occupancy, num_agents>>

DeployRejected(a) ==
    /\ reward' = RewardReject
    /\ info' = [EmptyInfo EXCEPT !.deployment = "rejected"]
    /\ UNCHANGED <<node_status, node_occupancy, num_agents>>

AgentArrival(a) ==
    IF a < num_nodes
    THEN IF CanDeploy(a) THEN DeploySuccess(a) ELSE DeployFailed(a)
    ELSE DeployRejected(a)

\* variant: the node is emptied by one but num_agents is not decremented
Depart_KeepsCount(n) ==
    /\ node_occupancy' = [node_occupancy EXCEPT ![n] = @ - 1]
    /\ num_agents' = num_agents
    /\ reward' = 0
    /\ info' = EmptyInfo
    /\ UNCHANGED node_status

Depart(n) ==
    /\ node_occupancy' = [node_occupancy EXCEPT ![n] = @ - 1]
    /\ num_agents' = num_agents - 1
    /\ reward' = 0
    /\ info' = EmptyInfo
    /\ UNCHANGED node_status

AgentDeparture ==
    LET occupied_nodes == {n \in Nodes : node_occupancy[n] > 0} IN
    IF num_agents > 0 /\ occupied_nodes # {}
    THEN \E node_idx \in occupied_nodes : Depart(node_idx)
    ELSE NoEffect

\* variant: the failed node keeps its services
Fail_KeepsOccupancy(failed_node) ==
    LET lost_services == node_occupancy[failed_node] IN
    /\ node_status' = [node_status EXCEPT ![failed_node] = 0]
    /\ node_occupancy' = node_occupancy
    /\ num_agents' = Max(0, num_agents - lost_services)
    /\ reward' = FailurePenalty * lost_services
    /\ info' = [EmptyInfo EXCEPT !.node_failure = failed_node]

\* variant: the lost services are not subtracted from num_agents
Fail_KeepsAgents(failed_node) ==
    LET lost_services == node_occupancy[failed_node] IN
    /\ node_status' = [node_status EXCEPT ![failed_node] = 0]
    /\ node_occupancy' = [node_occupancy EXCEPT ![failed_node] = 0]
    /\ num_agents' = num_agents
    /\ reward' = FailurePenalty * lost_services
    /\ info' = [EmptyInfo EXCEPT !.node_failure = failed_node]

Fail(failed_node) ==
    LET lost_services == node_occupancy[failed_node] IN
    /\ node_status' = [node_status EXCEPT ![failed_node] = 0]
    /\ node_occupancy' = [node_occupancy EXCEPT ![failed_node] = 0]
    \* int() acts on a whole number here: both operands are whole
    /\ num_agents' = Max(0, num_agents - lost_services)
    /\ reward' = FailurePenalty * lost_services
    /\ info' = [EmptyInfo EXCEPT !.node_failure = failed_node]

\* variant: the failing node is chosen among all nodes, not the active ones
NodeFailure_AnyNode ==
    LET active_nodes == {n \in Nodes : node_status[n] = 1} IN
    IF active_nodes # {}
    THEN \E failed_node \in Nodes : Fail(failed_node)
    ELSE NoEffect

NodeFailure ==
    LET active_nodes == {n \in Nodes : node_status[n] = 1} IN
    IF active_nodes # {}
    THEN \E failed_node \in active_nodes : Fail(failed_node)
    ELSE NoEffect

\* variant: a recovery is rewarded like a successful deployment
Recover_DeployReward(recovered_node) ==
    /\ node_status' = [node_status EXCEPT ![recovered_node] = 1]
    /\ reward' = RewardSuccess
    /\ info' = [EmptyInfo EXCEPT !.node_recovery = recovered_node]
    /\ UNCHANGED <<node_occupancy, num_agents>>

\* variant: the recovery reward varies with something that is no draw
Recover_UnseededReward(recovered_node) ==
    /\ node_status' = [node_status EXCEPT ![recovered_node] = 1]
    /\ reward' \in {RewardRecovery, RewardSuccess}
    /\ info' = [EmptyInfo EXCEPT !.node_recovery = recovered_node]
    /\ UNCHANGED <<node_occupancy, num_agents>>

Recover(recovered_node) ==
    /\ node_status' = [node_status EXCEPT ![recovered_node] = 1]
    /\ reward' = RewardRecovery
    /\ info' = [EmptyInfo EXCEPT !.node_recovery = recovered_node]
    /\ UNCHANGED <<node_occupancy, num_agents>>

\* variant: the recovery reward is assigned outside the emptiness guard
NodeRecovery_RewardOutsideGuard ==
    LET failed_nodes == {n \in Nodes : node_status[n] = 0} IN
    IF failed_nodes # {}
    THEN \E recovered_node \in failed_nodes : Recover(recovered_node)
    ELSE /\ UNCHANGED <<node_status, node_occupancy, num_agents>>
         /\ reward' = RewardRecovery
         /\ info' = EmptyInfo

NodeRecovery ==
    LET failed_nodes == {n \in Nodes : node_status[n] = 0} IN
    IF failed_nodes # {}
    THEN \E recovered_node \in failed_nodes : Recover(recovered_node)
    ELSE NoEffect

\* np_random.choice(n, p=...) accepts p only when it has n entries, none
\* negative, summing to 1 (10 tenths); otherwise it raises ValueError
ValidDistribution(p) ==
    /\ Len(p) = Len(EVENT_TYPES)
    /\ \A i \in 1 .. Len(p) : p[i] >= 0
    /\ SumOver(p, 1 .. Len(p)) = 10

\* _generate_next_event: any event type of positive probability can be drawn
GenerateNextEvent ==
    current_event' \in {EVENT_TYPES[i] : i \in {j \in 1 .. Len(EVENT_TYPES) : event_probabilities[j] > 0}}

\* variant: the horizon test written with > instead of >=
StepTail_LateTermination ==
    /\ steps' = steps + 1
    /\ GenerateNextEvent
    /\ terminated' = (steps' > max_steps)
    /\ truncated' = FALSE

StepTail ==
    /\ steps' = steps + 1
    /\ GenerateNextEvent
    /\ terminated' = (steps' >= max_steps)
    /\ truncated' = FALSE

\* variant: a departure takes the agent from the node the action names
HandleEvent_DepartureReadsAction(a) ==
    CASE current_event = "agent_arrival" -> AgentArrival(a)
      [] current_event = "agent_departure" ->
             IF a \in Nodes /\ node_occupancy[a] > 0 THEN Depart(a) ELSE AgentDeparture
      [] current_event = "node_failure" -> NodeFailure
      [] current_event = "node_recovery" -> NodeRecovery
      [] OTHER -> NoEffect

\* the branch of step(action) that handles current_event
HandleEvent(a) ==
    CASE current_event = "agent_arrival" -> AgentArrival(a)
      [] current_event = "agent_departure" -> AgentDeparture
      [] current_event = "node_failure" -> NodeFailure
      [] current_event = "node_recovery" -> NodeRecovery
      [] OTHER -> NoEffect

\* everything step(action) does to the environment and returns
StepEffect(a) ==
    /\ steps < max_steps + MaxOverrun
    /\ HandleEvent(a)
    /\ StepTail
    /\ UNCHANGED <<config, node_capacity>>

Step(a) ==
    /\ StepEffect(a)
    /\ op' = "step"
    /\ action' = IF current_event = "agent_arrival" THEN a ELSE Absent
    /\ handled_event' = current_event
    /\ prior_steps' = steps

\* the action is drawn from action_space = Discrete(num_nodes + 1) where the
\* handler reads it; the other handlers never mention it, one value stands
\* for all there
StepAny ==
    \E a \in (IF current_event = "agent_arrival" THEN 0 .. num_nodes ELSE {0}) : Step(a)

\* ---- RolloutBuffer --------------------------------------------------------
RECURSIVE GCD(_, _)
GCD(a, b) == IF b = 0 THEN a ELSE GCD(b, a % b)

Abs(x) == IF x < 0 THEN -x ELSE x

\* the fraction n / d in lowest terms, d > 0
Rat(n, d) ==
    LET g == GCD(Abs(n), Abs(d))
        sgn == IF d < 0 THEN -1 ELSE 1
    IN <<sgn * (n \div g), sgn * (d \div g)>>

RAdd(x, y) == Rat(x[1] * y[2] + y[1] * x[2], x[2] * y[2])
RSub(x, y) == Rat(x[1] * y[2] - y[1] * x[2], x[2] * y[2])
RMul(x, y) == Rat(x[1] * y[1], x[2] * y[2])
Zero == <<0, 1>>
One == <<1, 1>>

\* what the callers are taken to pass to add(...)
Transitions ==
    [state : {"obs"}, action : {0}, reward : {<<-1, 2>>, <<1, 1>>},
     log_prob : {<<-1, 2>>}, value : {Zero, <<1, 2>>}, done : BOOLEAN]

\* and to compute_returns_and_advantages(gamma, gae_lambda)
Discounts == {<<1, 2>>, One}

\* the record of a call op that returned nothing
Called(o, trs, c) ==
    [op |-> o, added |-> trs, cleared |-> c, batch |-> << >>, gamma |-> Zero,
     gae_lambda |-> Zero, returns |-> << >>, advantages |-> << >>]

NoLists ==
    [states |-> << >>, actions |-> << >>, rewards |-> << >>, log_probs |-> << >>,
     values |-> << >>, dones |-> << >>]

\* RolloutBuffer()
BufferNew ==
    /\ buffer = NoLists
    /\ call = Called("new", << >>, FALSE)

BufferLen == Len(buffer.states)

\* variant: add forgets to append the log-probability
BufferAdd_DropsLogProb(tr) ==
    buffer' = [states |-> Append(buffer.states, tr.state),
               actions |-> Append(buffer.actions, tr.action),
               rewards |-> Append(buffer.rewards, tr.reward),
               log_probs |-> buffer.log_probs,
               values |-> Append(buffer.values, tr.value),
               dones |-> Append(buffer.dones, tr.done)]

BufferAdd(tr) ==
    buffer' = [states |-> Append(buffer.states, tr.state),
               actions |-> Append(buffer.actions, tr.action),
               rewards |-> Append(buffer.rewards, tr.reward),
               log_probs |-> Append(buffer.log_probs, tr.log_prob),
               values |-> Append(buffer.values, tr.value),
               dones |-> Append(buffer.dones, tr.done)]

\* variant: clear leaves the rewards list as it was
BufferClear_KeepsRewards ==
    buffer' = [states |-> << >>, actions |-> << >>, rewards |-> buffer.rewards,
               log_probs |-> << >>, values |-> << >>, dones |-> << >>]

BufferClear ==
    buffer' = [states |-> << >>, actions |-> << >>, rewards |-> << >>,
               log_probs |-> << >>, values |-> << >>, dones |-> << >>]

\* get(): the five tensors, in list order (dones is not among them)
BufferGet ==
    <<buffer.states, buffer.actions, buffer.rewards, buffer.log_probs, buffer.values>>

\* 1 - dones[t]
NotDone(d) == IF d THEN Zero ELSE One

\* variant: the running gae is carried across a done transition
GaeLoop_Unmasked(rs, vs, ds, g, l) ==
    LET T == Len(rs)
        loop[k \in 0 .. T] ==
            \* after k iterations, t = T, T-1, ..  : <<gae, advantages>>
            IF k = 0 THEN <<Zero, [i \in 1 .. T |-> Zero]>>
            ELSE LET t == T - k + 1
                     prev == loop[k - 1]
                     gae == prev[1]
                     next_value == IF t = T THEN Zero ELSE vs[t + 1]
                     delta == RSub(RAdd(rs[t], RMul(RMul(g, next_value), NotDone(ds[t]))), vs[t])
                     new_gae == RAdd(delta, RMul(RMul(g, l), gae))
                 IN <<new_gae, [prev[2] EXCEPT ![t] = new_gae]>>
    IN loop[T][2]

\* variant: the next value is bootstrapped across a done transition
GaeLoop_BootstrapsThroughDone(rs, vs, ds, g, l) ==
    LET T == Len(rs)
        loop[k \in 0 .. T] ==
            IF k = 0 THEN <<Zero, [i \in 1 .. T |-> Zero]>>
            ELSE LET t == T - k + 1
                     prev == loop[k - 1]
                     gae == prev[1]
                     next_value == IF t = T THEN Zero ELSE vs[t + 1]
                     delta == RSub(RAdd(rs[t], RMul(g, next_value)), vs[t])
                     new_gae == RAdd(delta, RMul(RMul(RMul(g, l), NotDone(ds[t])), gae))
                 IN <<new_gae, [prev[2] EXCEPT ![t] = new_gae]>>
    IN loop[T][2]

\* the loop of compute_returns_and_advantages; list index t here is the
\* source's t + 1
GaeLoop(rs, vs, ds, g, l) ==
    LET T == Len(rs)
        loop[k \in 0 .. T] ==
            \* after k iterations, t = T, T-1, ..  : <<gae, advantages>>
            IF k = 0 THEN <<Zero, [i \in 1 .. T |-> Zero]>>
            ELSE LET t == T - k + 1
                     prev == loop[k - 1]
                     gae == prev[1]
                     next_value == IF t = T THEN Zero ELSE vs[t + 1]
                     delta == RSub(RAdd(rs[t], RMul(RMul(g, next_value), NotDone(ds[t]))), vs[t])
                     new_gae == RAdd(delta, RMul(RMul(RMul(g, l), NotDone(ds[t])), gae))
                 IN <<new_gae, [prev[2] EXCEPT ![t] = new_gae]>>
    IN loop[T][2]

Add ==
    /\ BufferLen < MaxBufferLen
    /\ \E tr \in Transitions :
          /\ BufferAdd(tr)
          /\ call' = Called("add", Append(call.added, tr), call.cleared)

Clear ==
    /\ BufferClear
    /\ call' = Called("clear", << >>, TRUE)

Get ==
    /\ call' = [Called("get", call.added, call.cleared) EXCEPT !.batch = BufferGet]
    /\ UNCHANGED buffer

ComputeReturnsAndAdvantages ==
    /\ \E g \in Discounts, l \in Discounts :
          \E adv \in {GaeLoop(buffer.rewards, buffer.values, buffer.dones, g, l)} :
          call' = [Called("compute", call.added, call.cleared) EXCEPT
                     !.gamma = g,
                     !.gae_lambda = l,
                     !.advantages = adv,
                     !.returns = [t \in 1 .. Len(buffer.rewards) |->
                                    RAdd(adv[t], buffer.values[t])]]
    /\ UNCHANGED buffer

\* ---- construction with arbitrary arguments, and what follows it ---------
\* the event probability vectors a caller is taken to pass: the default, one
\* that sums to 2.5, one with a negative entry
ProbabilityChoices ==
    {default_event_probabilities, <<5, 5, 5, 5, 5>>, <<11, -1, 0, 0, 0>>}

\* the attributes that exist only once reset() has run, before it has
NotBuilt ==
    /\ node_status = << >>
    /\ node_occupancy = << >>
    /\ node_capacity = << >>
    /\ num_agents = 0
    /\ current_event = "no_event"
    /\ steps = 0
    /\ action = Absent
    /\ handled_event = "none"
    /\ prior_steps = 0
    /\ reward = 0
    /\ terminated = FALSE
    /\ truncated = FALSE
    /\ info = EmptyInfo

InitAnyConfig ==
    /\ num_nodes \in -1 .. MaxNodes
    /\ default_node_capacity \in -1 .. 2
    /\ max_agents \in {1, default_max_agents}
    /\ event_probabilities \in ProbabilityChoices
    /\ op = "new"
    /\ NotBuilt
    /\ BufferNew
    /\ LoopIdle
    /\ RunsIdle
    /\ TrainerIdle

\* __init__: the arguments are stored unchecked; spaces.Discrete(num_nodes + 1)
\* raises unless num_nodes + 1 > 0; then reset() runs
Construct ==
    /\ UNCHANGED <<bufVars, loopVars, runVars, trainerVars>>
    /\ op = "new"
    /\ IF num_nodes + 1 > 0
       THEN Reset
       ELSE op' = "init_error" /\ UNCHANGED <<config, node_status, node_occupancy,
                node_capacity, num_agents, current_event, steps, action,
                handled_event, prior_steps, reward, terminated, truncated, info>>

Live == op \in {"reset", "step", "step_error"}

ResetLive == Live /\ Reset /\ UNCHANGED <<bufVars, loopVars, runVars, trainerVars>>

StepLive ==
    /\ Live /\ ValidDistribution(event_probabilities) /\ StepAny
    /\ UNCHANGED <<bufVars, loopVars, runVars, trainerVars>>

\* step() with a vector np_random.choice refuses: the event has been handled
\* and the counter advanced when _generate_next_event raises
StepRaises ==
    /\ UNCHANGED <<bufVars, loopVars, runVars, trainerVars>>
    /\ Live
    /\ ~ValidDistribution(event_probabilities)
    /\ steps < max_steps + MaxOverrun
    /\ \E a \in 0 .. num_nodes :
          /\ CASE current_event = "agent_arrival" -> AgentArrival(a)
               [] current_event = "agent_departure" -> AgentDeparture
               [] current_event = "node_failure" -> NodeFailure
               [] current_event = "node_recovery" -> NodeRecovery
               [] OTHER -> NoEffect
          /\ action' = IF current_event = "agent_arrival" THEN a ELSE Absent
    /\ steps' = steps + 1
    /\ op' = "step_error"
    /\ handled_event' = current_event
    /\ prior_steps' = steps
    /\ UNCHANGED <<config, node_capacity, current_event, terminated, truncated>>

NextAnyConfig == Construct \/ ResetLive \/ StepLive \/ StepRaises

SpecAnyConfig == InitAnyConfig /\ [][NextAnyConfig]_vars

\* ---- the drivers: train() and quick_demo() ------------------------------
\* buffer.add(state, action, reward, log_prob, value, done)
RecordedTransition(d) ==
    [state |-> "obs", action |-> 0, reward |-> Zero, log_prob |-> Zero,
     value |-> Zero, done |-> d]

\* policy.act, env.step, buffer.add with done = terminated or truncated
Collect ==
    /\ StepAny
    /\ BufferAdd(RecordedTransition(terminated' \/ truncated'))
    /\ call' = Called("add", Append(call.added, RecordedTransition(terminated' \/ truncated')),
                      call.cleared)

\* trainer.update(buffer): the batch it takes with buffer.get().  The
\* returns and advantages it computes from the batch go into the gradient
\* steps on the networks, which are no part of the state here; the buffer
\* itself is left as it is.
TrainerUpdate ==
    /\ call' = [Called("update", call.added, call.cleared) EXCEPT !.batch = BufferGet]
    /\ UNCHANGED buffer

\* variant: the update is called whatever the buffer holds
ShouldUpdate_Always == TRUE

\* if len(buffer) > 0:
ShouldUpdate == BufferLen > 0

\* the episode statistics move only when they are followed
Followed(t) == IF telemetry.followed THEN t ELSE telemetry

\* if done: the episode's reward and length are appended and handed to the
\* writer under the new episode_num, the environment is reset and the two
\* running values start again at 0
EpisodeEnd ==
    /\ Reset
    /\ telemetry' = Followed([telemetry EXCEPT
                         !.episode_rewards = Append(@, telemetry.episode_reward),
                         !.episode_lengths = Append(@, telemetry.episode_length),
                         !.episode_num = @ + 1,
                         !.episode_reward = 0,
                         !.episode_length = 0,
                         !.env_return = 0,
                         !.resets = @ + 1])

\* state, _ = env.reset()
TrainStart ==
    /\ driver.prog = "train" /\ driver.pc = "start"
    /\ UNCHANGED <<runVars, trainerVars>>
    /\ Reset
    /\ telemetry' = Followed([telemetry EXCEPT !.env_return = 0, !.resets = @ + 1])
    /\ driver' = [driver EXCEPT !.pc = "while"]
    /\ UNCHANGED bufVars

\* while global_step < args.total_timesteps:
TrainWhile ==
    /\ driver.prog = "train" /\ driver.pc = "while"
    /\ UNCHANGED <<runVars, trainerVars, telemetry>>
    /\ driver' = IF driver.global_step < driver.total_timesteps
                 THEN [driver EXCEPT !.pc = "for", !.loop_i = 0]
                 ELSE [driver EXCEPT !.pc = "end"]
    /\ UNCHANGED <<envVars, bufVars>>

\* for _ in range(args.update_interval):
TrainFor ==
    /\ driver.prog = "train" /\ driver.pc = "for"
    /\ UNCHANGED <<runVars, trainerVars, telemetry>>
    /\ driver' = [driver EXCEPT !.pc = IF driver.loop_i < driver.update_interval
                                       THEN "collect" ELSE "update"]
    /\ UNCHANGED <<envVars, bufVars>>

\* the loop body up to global_step += 1
TrainCollect ==
    /\ driver.prog = "train" /\ driver.pc = "collect"
    /\ UNCHANGED <<runVars, trainerVars>>
    /\ Collect
    /\ telemetry' = Followed([telemetry EXCEPT !.episode_reward = @ + reward',
                                                !.episode_length = @ + 1,
                                                !.env_return = @ + reward'])
    /\ driver' = [driver EXCEPT !.done = terminated' \/ truncated',
                                !.global_step = @ + 1,
                                !.pc = "after"]

\* variant: the round is not left when the budget is used up
TrainAfter_NoBreak ==
    /\ driver.prog = "train" /\ driver.pc = "after"
    /\ UNCHANGED <<runVars, trainerVars>>
    /\ IF driver.done THEN EpisodeEnd ELSE UNCHANGED <<envVars, telemetry>>
    /\ driver' = [driver EXCEPT !.pc = "for", !.loop_i = @ + 1]
    /\ UNCHANGED bufVars

\* if done: env.reset();  if global_step >= args.total_timesteps: break
TrainAfter ==
    /\ driver.prog = "train" /\ driver.pc = "after"
    /\ UNCHANGED <<runVars, trainerVars>>
    /\ IF driver.done THEN EpisodeEnd ELSE UNCHANGED <<envVars, telemetry>>
    /\ driver' = IF driver.global_step >= driver.total_timesteps
                 THEN [driver EXCEPT !.pc = "update"]
                 ELSE [driver EXCEPT !.pc = "for", !.loop_i = @ + 1]
    /\ UNCHANGED bufVars

\* if len(buffer) > 0: stats = trainer.update(buffer)
TrainUpdate ==
    /\ driver.prog = "train" /\ driver.pc = "update"
    /\ UNCHANGED <<runVars, trainerVars, telemetry>>
    /\ IF ShouldUpdate
       THEN /\ TrainerUpdate
            /\ driver' = [driver EXCEPT !.update_len = BufferLen,
                                        !.trained = @ + BufferLen,
                                        !.pc = "clear"]
       ELSE /\ driver' = [driver EXCEPT !.pc = "while"]
            /\ UNCHANGED bufVars
    /\ UNCHANGED envVars

\* variant: the episode's running reward is dropped with the buffer
TrainClear_DropsEpisodeReward ==
    /\ driver.prog = "train" /\ driver.pc = "clear"
    /\ UNCHANGED <<runVars, trainerVars>>
    /\ telemetry' = Followed([telemetry EXCEPT !.episode_reward = 0])
    /\ Clear
    /\ driver' = [driver EXCEPT !.pc = "while"]
    /\ UNCHANGED envVars

\* variant: the buffer is not cleared after the update
TrainClear_KeepsBuffer ==
    /\ driver.prog = "train" /\ driver.pc = "clear"
    /\ UNCHANGED <<runVars, trainerVars, telemetry>>
    /\ call' = Called("clear", call.added, TRUE)
    /\ UNCHANGED buffer
    /\ driver' = [driver EXCEPT !.pc = "while"]
    /\ UNCHANGED envVars

\* buffer.clear()
TrainClear ==
    /\ driver.prog = "train" /\ driver.pc = "clear"
    /\ UNCHANGED <<runVars, trainerVars, telemetry>>
    /\ Clear
    /\ driver' = [driver EXCEPT !.pc = "while"]
    /\ UNCHANGED envVars

\* for episode in range(10): state, _ = env.reset(); done = False
DemoEpisode ==
    /\ driver.prog = "demo" /\ driver.pc = "episode"
    /\ UNCHANGED <<runVars, trainerVars, telemetry>>
    /\ IF driver.episode < demo_episodes
       THEN /\ Reset
            /\ driver' = [driver EXCEPT !.done = FALSE, !.pc = "loop"]
       ELSE /\ driver' = [driver EXCEPT !.pc = "end"]
            /\ UNCHANGED envVars
    /\ UNCHANGED bufVars

\* while not done:
DemoCollect ==
    /\ driver.prog = "demo" /\ driver.pc = "loop" /\ ~driver.done
    /\ UNCHANGED <<runVars, trainerVars, telemetry>>
    /\ Collect
    /\ driver' = [driver EXCEPT !.done = terminated' \/ truncated']

\* if len(buffer) > 0: trainer.update(buffer)
DemoUpdate ==
    /\ driver.prog = "demo" /\ driver.pc = "loop" /\ driver.done
    /\ UNCHANGED <<runVars, trainerVars, telemetry>>
    /\ IF ShouldUpdate
       THEN /\ TrainerUpdate
            /\ driver' = [driver EXCEPT !.update_len = BufferLen,
                                        !.trained = @ + BufferLen,
                                        !.pc = "clear"]
       ELSE /\ driver' = [driver EXCEPT !.pc = "episode", !.episode = @ + 1]
            /\ UNCHANGED bufVars
    /\ UNCHANGED envVars

\* buffer.clear(), and the next episode
DemoClear ==
    /\ driver.prog = "demo" /\ driver.pc = "clear"
    /\ UNCHANGED <<runVars, trainerVars, telemetry>>
    /\ Clear
    /\ driver' = [driver EXCEPT !.pc = "episode", !.episode = @ + 1]
    /\ UNCHANGED envVars

\* the environment the drivers build, in its smallest configuration
EnvSmallest ==
    /\ num_nodes = 1
    /\ default_node_capacity = 1
    /\ max_agents = default_max_agents
    /\ event_probabilities = default_event_probabilities
    /\ Constructed

\* the environment of `--num_nodes 0`: every arrival is rejected, nothing
\* else is rewarded
EnvNoNodes ==
    /\ num_nodes = 0
    /\ default_node_capacity = 1
    /\ max_agents = default_max_agents
    /\ event_probabilities = default_event_probabilities
    /\ Constructed

\* the drivers at their first statement, for the arguments considered
Drivers ==
    {[prog |-> "train", pc |-> "start", total_timesteps |-> tt, update_interval |-> ui,
      global_step |-> 0, loop_i |-> 0, episode |-> 0, done |-> FALSE,
      update_len |-> Absent, trained |-> 0] :
        tt \in (-1 .. MaxTimesteps) \cup {max_steps + 1}, ui \in -1 .. MaxUpdateInterval}
    \cup
    {[prog |-> "demo", pc |-> "episode", total_timesteps |-> 0, update_interval |-> 0,
      global_step |-> 0, loop_i |-> 0, episode |-> 0, done |-> FALSE,
      update_len |-> Absent, trained |-> 0]}

InitLoops ==
    /\ EnvSmallest
    /\ BufferNew
    /\ driver \in Drivers
    /\ telemetry = TelemetryStart(FALSE)
    /\ RunsIdle
    /\ TrainerIdle

NextLoops ==
    \/ TrainStart \/ TrainWhile \/ TrainFor \/ TrainCollect \/ TrainAfter
    \/ TrainUpdate \/ TrainClear
    \/ DemoEpisode \/ DemoCollect \/ DemoUpdate \/ DemoClear

SpecLoops == InitLoops /\ [][NextLoops]_vars

\* train() alone
InitTrain == InitLoops /\ driver.prog = "train"

NextTrain ==
    \/ TrainStart \/ TrainWhile \/ TrainFor \/ TrainCollect \/ TrainAfter
    \/ TrainUpdate \/ TrainClear

\* train() is a sequential program that keeps running: a statement that can
\* be executed is executed
SpecTrainFair == InitTrain /\ [][NextTrain]_vars /\ WF_vars(NextTrain)

\* train() with its episode statistics followed: without nodes for a budget
\* of one whole episode and one step more, with a node for the short budget
InitTelemetry ==
    /\ EnvNoNodes \/ EnvSmallest
    /\ BufferNew
    /\ driver \in {d \in Drivers : /\ d.prog = "train"
                                    /\ d.total_timesteps \in {MaxTimesteps, max_steps + 1}
                                    /\ d.update_interval = MaxUpdateInterval}
    /\ num_nodes > 0 => driver.total_timesteps = MaxTimesteps
    /\ telemetry = TelemetryStart(TRUE)
    /\ RunsIdle
    /\ TrainerIdle

SpecTelemetry == InitTelemetry /\ [][NextTrain]_vars

\* ---- two runs under the same random draws -------------------------------
\* an environment of two nodes, so that the node draws are choices
EnvTwoNodes ==
    /\ num_nodes = 2
    /\ default_node_capacity = 2
    /\ max_agents = default_max_agents
    /\ event_probabilities = default_event_probabilities
    /\ Constructed

\* the node self.np_random.choice(...) picked in the handler of this step
DrawnNode ==
    CASE current_event = "agent_departure" ->
            IF \E n \in Nodes : node_occupancy'[n] < node_occupancy[n]
            THEN CHOOSE n \in Nodes : node_occupancy'[n] < node_occupancy[n]
            ELSE Absent
      [] current_event = "node_failure" -> info'.node_failure
      [] current_event = "node_recovery" -> info'.node_recovery
      [] OTHER -> Absent

\* the draws of one step: the action sampled for it, the node its handler
\* drew, the event _generate_next_event drew
Draws(a) == [action |-> a, node |-> DrawnNode, event |-> current_event']

\* what the trajectory keeps of reset(): the observation
AtReset(obs) == [observation |-> obs, action |-> Absent, reward |-> 0, terminated |-> FALSE]

\* what it keeps of step(a)
Returned(a) ==
    [observation |-> GetObservation', action |-> a, reward |-> reward',
     terminated |-> terminated']

InitRuns ==
    /\ EnvTwoNodes
    /\ BufferNew
    /\ LoopIdle
    /\ TrainerIdle
    /\ runs = [phase |-> "first", tape |-> << >>, first |-> <<AtReset(GetObservation)>>,
               second |-> << >>]

\* a step of the first run, under any action and any draws
FirstRunStep ==
    /\ runs.phase = "first" /\ Len(runs.tape) < MaxRunLen
    /\ \E a \in 0 .. num_nodes :
          /\ Step(a)
          /\ runs' = [runs EXCEPT !.tape = Append(@, Draws(a)),
                                  !.first = Append(@, Returned(a))]
    /\ UNCHANGED <<bufVars, loopVars, trainerVars>>

\* the second run starts: reset()
SecondRunReset ==
    /\ runs.phase = "first" /\ Len(runs.tape) >= 1
    /\ Reset
    /\ runs' = [runs EXCEPT !.phase = "second", !.second = <<AtReset(GetObservation')>>]
    /\ UNCHANGED <<bufVars, loopVars, trainerVars>>

\* a step of the second run, under the action and the draws of the same
\* step of the first
SecondRunStep ==
    /\ runs.phase = "second" /\ Len(runs.second) <= Len(runs.tape)
    /\ LET d == runs.tape[Len(runs.second)] IN
          /\ Step(d.action)
          /\ DrawnNode = d.node
          /\ current_event' = d.event
          /\ runs' = [runs EXCEPT !.second = Append(@, Returned(d.action))]
    /\ UNCHANGED <<bufVars, loopVars, trainerVars>>

NextRuns == FirstRunStep \/ SecondRunReset \/ SecondRunStep

SpecRuns == InitRuns /\ [][NextRuns]_vars

\* ---- the environment on its own ----------------------------------------
Init == EnvInit /\ BufferNew /\ LoopIdle /\ RunsIdle /\ TrainerIdle

EnvReset == Reset /\ UNCHANGED <<bufVars, loopVars, runVars, trainerVars>>

EnvStep == StepAny /\ UNCHANGED <<bufVars, loopVars, runVars, trainerVars>>

Next == EnvReset \/ EnvStep

Spec == Init /\ [][Next]_vars

\* ---- the buffer on its own -----------------------------------------------
\* the environment stays as constructed with the default arguments
EnvIdle ==
    /\ num_nodes = 1
    /\ default_node_capacity = 2
    /\ max_agents = default_max_agents
    /\ event_probabilities = default_event_probabilities
    /\ Constructed

InitBuffer == EnvIdle /\ BufferNew /\ LoopIdle /\ RunsIdle /\ TrainerIdle

BufAdd == Add /\ UNCHANGED <<envVars, loopVars, runVars, trainerVars>>

BufClear == Clear /\ UNCHANGED <<envVars, loopVars, runVars, trainerVars>>

BufGet == Get /\ UNCHANGED <<envVars, loopVars, runVars, trainerVars>>

BufCompute == ComputeReturnsAndAdvantages /\ UNCHANGED <<envVars, loopVars, runVars, trainerVars>>

NextBuffer == BufAdd \/ BufClear \/ BufGet \/ BufCompute

SpecBuffer == InitBuffer /\ [][NextBuffer]_vars

\* ---- PPOTrainer.update: the clipped surrogate of one sample -------------
\* order of two fractions (denominators are positive)
RLess(x, y) == x[1] * y[2] < y[1] * x[2]

RMin(x, y) == IF RLess(y, x) THEN y ELSE x

RMax(x, y) == IF RLess(x, y) THEN y ELSE x

\* torch.clamp(x, lo, hi)
Clamp(x, lo, hi) == RMin(RMax(x, lo), hi)

\* the values of clip_epsilon considered: the default 0.2, and 0.1
ClipEpsilons == {<<1, 5>>, <<1, 10>>}

\* ratio = exp(log_probs - batch_old_log_probs) is positive
Ratios == {Rat(j, 5) : j \in 1 .. 5 * MaxRatio}

Advantages == {Rat(k, 2) : k \in -MaxAdvantage .. MaxAdvantage}

\* variant: the two surrogates are combined with max
SurrogateTerm_Max(ratio, advantage, eps) ==
    LET surr1 == RMul(ratio, advantage)
        surr2 == RMul(Clamp(ratio, RSub(One, eps), RAdd(One, eps)), advantage)
    IN [surr1 |-> surr1, surr2 |-> surr2, term |-> RMax(surr1, surr2)]

\* surr1, surr2 and torch.min(surr1, surr2) for one sample of the mini-batch
SurrogateTerm(ratio, advantage, eps) ==
    LET surr1 == RMul(ratio, advantage)
        surr2 == RMul(Clamp(ratio, RSub(One, eps), RAdd(One, eps)), advantage)
    IN [surr1 |-> surr1, surr2 |-> surr2, term |-> RMin(surr1, surr2)]

\* a sample reaches the policy loss
InitSurrogate ==
    /\ EnvIdle
    /\ BufferNew
    /\ LoopIdle
    /\ RunsIdle
    /\ \E r \in Ratios, a \in Advantages, e \in ClipEpsilons :
          trainer = [op |-> "sample", clip_epsilon |-> e, ratio |-> r, advantage |-> a,
                     surr1 |-> Zero, surr2 |-> Zero, term |-> Zero]

PolicyLossTerm ==
    /\ trainer.op = "sample"
    /\ LET s == SurrogateTerm(trainer.ratio, trainer.advantage, trainer.clip_epsilon) IN
          trainer' = [trainer EXCEPT !.op = "loss", !.surr1 = s.surr1, !.surr2 = s.surr2,
                                    !.term = s.term]
    /\ UNCHANGED <<envVars, bufVars, loopVars, runVars>>

NextSurrogate == PolicyLossTerm

SpecSurrogate == InitSurrogate /\ [][NextSurrogate]_vars

\* ---- PPOTrainer.update: epochs and mini-batches -----------------------
\* np.random.shuffle(np.arange(n)): any order of the indices 0 .. n-1
Shuffles(n) ==
    {f \in [1 .. n -> 0 .. n - 1] : \A i, j \in 1 .. n : f[i] = f[j] => i = j}

\* variant: the slice stops one short of end_idx
BatchIndices_OneShort(indices, start_idx, size) ==
    LET end_idx == IF start_idx + size < Len(indices) THEN start_idx + size ELSE Len(indices)
    IN SubSeq(indices, start_idx + 1, end_idx - 1)

\* indices[start_idx:end_idx] with end_idx = min(start_idx + batch_size, len(states))
BatchIndices(indices, start_idx, size) ==
    LET end_idx == IF start_idx + size < Len(indices) THEN start_idx + size ELSE Len(indices)
    IN SubSeq(indices, start_idx + 1, end_idx)

\* update is entered with a batch of T transitions
InitMiniBatches ==
    /\ EnvIdle
    /\ BufferNew
    /\ LoopIdle
    /\ RunsIdle
    /\ \E T \in 1 .. MaxBufferLen, B \in 1 .. MaxBatchSize, E \in 0 .. MaxEpochs :
          trainer = [op |-> "update", pc |-> "epoch", T |-> T, batch_size |-> B,
                     update_epochs |-> E, epoch |-> 0, indices |-> << >>, start_idx |-> 0,
                     batches |-> << >>, num_updates |-> 0, optimizer_steps |-> 0,
                     divisor |-> Absent]

\* for epoch in range(self.update_epochs): shuffle the indices
EpochHead ==
    /\ trainer.op = "update" /\ trainer.pc = "epoch"
    /\ IF trainer.epoch < trainer.update_epochs
       THEN \E ind \in Shuffles(trainer.T) :
               trainer' = [trainer EXCEPT !.indices = ind, !.start_idx = 0,
                                         !.batches = << >>, !.pc = "batch"]
       ELSE trainer' = [trainer EXCEPT !.pc = "stats"]
    /\ UNCHANGED <<envVars, bufVars, loopVars, runVars>>

\* for start_idx in range(0, len(states), self.batch_size): one mini-batch,
\* one optimizer step, num_updates += 1
MiniBatch ==
    /\ trainer.op = "update" /\ trainer.pc = "batch"
    /\ IF trainer.start_idx < trainer.T
       THEN trainer' = [trainer EXCEPT
                          !.batches = Append(@, BatchIndices(trainer.indices, trainer.start_idx,
                                                             trainer.batch_size)),
                          !.optimizer_steps = @ + 1,
                          !.num_updates = @ + 1,
                          !.start_idx = @ + trainer.batch_size]
       ELSE trainer' = [trainer EXCEPT !.epoch = @ + 1, !.pc = "epoch"]
    /\ UNCHANGED <<envVars, bufVars, loopVars, runVars>>

\* stats = {... / num_updates}: ZeroDivisionError when no mini-batch was run
ReturnStats ==
    /\ trainer.op = "update" /\ trainer.pc = "stats"
    /\ trainer' = IF trainer.num_updates = 0
                  THEN [trainer EXCEPT !.op = "error", !.pc = "raised"]
                  ELSE [trainer EXCEPT !.op = "returned", !.pc = "return",
                                       !.divisor = trainer.num_updates]
    /\ UNCHANGED <<envVars, bufVars, loopVars, runVars>>

NextMiniBatches == EpochHead \/ MiniBatch \/ ReturnStats

SpecMiniBatches == InitMiniBatches /\ [][NextMiniBatches]_vars

\* ==== properties ==========================================================

StateVars == <<node_status, node_occupancy, num_agents>>

StepHandles(e) == op' = "step" /\ current_event = e

\* C1: in every state reachable from reset() by step calls, num_agents equals
\* the sum of node_occupancy over all nodes.
C1_AgentsEqualOccupancy == num_agents = SumOver(node_occupancy, Nodes)

\* a node failure has lost services while the other node still holds some
C1_Witness ==
    /\ op = "step" /\ handled_event = "node_failure"
    /\ info.node_failure # Absent /\ reward < 0 /\ num_agents > 0

\* C2: for any positive capacity, integer or not, every reachable state has
\* 0 <= node_occupancy[i] <= node_capacity[i] for every node i.
C2_OccupancyWithinCapacity ==
    \A n \in Nodes : 0 <= node_occupancy[n] /\ 2 * node_occupancy[n] <= node_capacity[n]

\* C3: node_status[i] is always 0 or 1; a step that turns a node from active
\* to failed leaves it with occupancy 0, and a failed node holds no agent for
\* as long as it stays failed.
C3_FailedNodeIsEmpty ==
    /\ [](\A n \in Nodes : /\ node_status[n] \in {0, 1}
                           /\ (node_status[n] = 0 => node_occupancy[n] = 0))
    /\ [][\A n \in Nodes : (node_status[n] = 1 /\ node_status'[n] = 0)
                               => node_occupancy'[n] = 0]_vars

\* a node that held services has just failed and is now empty
C3_Witness ==
    /\ op = "step" /\ handled_event = "node_failure" /\ info.node_failure # Absent
    /\ reward < 0
    /\ node_status[info.node_failure] = 0 /\ node_occupancy[info.node_failure] = 0

\* C4: on agent_arrival with action a in [0, num_nodes), the deployment
\* succeeds iff node a is active and below capacity; on success occupancy[a]
\* and num_agents grow by exactly 1, nothing else changes, and the reward is +1.
C4_DeploySucceedsIff ==
    [][(StepHandles("agent_arrival") /\ action' \in Nodes) =>
        LET a == action'
            success == info'.deployment = "success"
        IN /\ success <=> (node_status[a] = 1 /\ 2 * node_occupancy[a] < node_capacity[a])
           /\ success =>
                /\ node_occupancy' = [node_occupancy EXCEPT ![a] = node_occupancy[a] + 1]
                /\ num_agents' = num_agents + 1
                /\ node_status' = node_status
                /\ reward' = 2]_vars

\* a deployment has just succeeded
C4_Witness ==
    /\ op = "step" /\ handled_event = "agent_arrival" /\ action \in Nodes
    /\ info.deployment = "success" /\ reward = 2 /\ node_occupancy[action] >= 1

\* C5: on agent_arrival, when the chosen node is inactive or at capacity, the
\* reward is -1 and node_status, node_occupancy and num_agents do not change.
C5_FailedDeployChangesNothing ==
    [][(/\ StepHandles("agent_arrival") /\ action' \in Nodes
        /\ \/ node_status[action'] = 0
           \/ 2 * node_occupancy[action'] >= node_capacity[action'])
        => (reward' = -2 /\ UNCHANGED StateVars)]_vars

\* a deployment was refused by an active node that is full
C5_Witness ==
    /\ op = "step" /\ handled_event = "agent_arrival" /\ action \in Nodes
    /\ reward = -2 /\ node_status[action] = 1
    /\ 2 * node_occupancy[action] >= node_capacity[action]

\* C6: on agent_arrival with action = num_nodes (reject), the reward is -0.5
\* and node_status, node_occupancy and num_agents do not change.
C6_RejectChangesNothing ==
    [][(StepHandles("agent_arrival") /\ action' = num_nodes)
        => (reward' = -1 /\ UNCHANGED StateVars)]_vars

\* an arrival has been rejected
C6_Witness ==
    /\ op = "step" /\ handled_event = "agent_arrival" /\ action = num_nodes
    /\ info.deployment = "rejected"

\* C7: on node_failure with an active node, exactly one active node becomes
\* inactive and empty, num_agents drops by that node's previous occupancy and
\* stays >= 0, the other nodes are unchanged, and the reward is -2 per lost service.
C7_NodeFailureEffect ==
    [][(StepHandles("node_failure") /\ \E n \in Nodes : node_status[n] = 1) =>
        \E f \in Nodes :
            /\ node_status[f] = 1
            /\ node_status' = [node_status EXCEPT ![f] = 0]
            /\ node_occupancy' = [node_occupancy EXCEPT ![f] = 0]
            /\ num_agents' = num_agents - node_occupancy[f]
            /\ num_agents' >= 0
            /\ reward' = -4 * node_occupancy[f]]_vars

\* a node holding two services has failed
C7_Witness ==
    /\ op = "step" /\ handled_event = "node_failure"
    /\ info.node_failure # Absent /\ reward = -8

\* C8: on agent_departure with num_agents > 0, exactly one occupied node loses
\* one service, num_agents drops by 1, nothing else changes, and the reward is 0.
C8_DepartureEffect ==
    [][(StepHandles("agent_departure") /\ num_agents > 0) =>
        /\ \E n \in Nodes :
              /\ node_occupancy[n] > 0
              /\ node_occupancy' = [node_occupancy EXCEPT ![n] = node_occupancy[n] - 1]
        /\ num_agents' = num_agents - 1
        /\ node_status' = node_status
        /\ reward' = 0]_vars

\* an agent has departed and another one is still deployed
C8_Witness ==
    /\ op = "step" /\ handled_event = "agent_departure"
    /\ num_agents > 0 /\ \E n \in Nodes : 2 * node_occupancy[n] < node_capacity[n]

\* C9: on node_recovery with an inactive node, exactly one inactive node
\* becomes active, no occupancy and not num_agents changes (the node comes
\* back empty), and the reward is +0.5.
C9_RecoveryEffect ==
    [][(StepHandles("node_recovery") /\ \E n \in Nodes : node_status[n] = 0) =>
        /\ \E r \in Nodes :
              /\ node_status[r] = 0
              /\ node_status' = [node_status EXCEPT ![r] = 1]
              /\ node_occupancy'[r] = 0
        /\ UNCHANGED <<node_occupancy, num_agents>>
        /\ reward' = 1]_vars

\* a node has recovered, empty, while the other node holds services
C9_Witness ==
    /\ op = "step" /\ handled_event = "node_recovery"
    /\ info.node_recovery # Absent
    /\ node_status[info.node_recovery] = 1 /\ node_occupancy[info.node_recovery] = 0
    /\ num_agents > 0

Degenerate ==
    \/ current_event = "agent_departure" /\ num_agents = 0
    \/ current_event = "node_failure" /\ \A n \in Nodes : node_status[n] = 0
    \/ current_event = "node_recovery" /\ \A n \in Nodes : node_status[n] = 1

\* C10: departure with no agent, failure with no active node and recovery
\* with no inactive node are no-ops: the step can be taken, leaves node_status,
\* node_occupancy and num_agents unchanged, returns reward 0, advances the step
\* counter and draws the next event.
C10_DegenerateEventsAreNoOps ==
    /\ []((Degenerate /\ steps < max_steps + MaxOverrun) => ENABLED StepAny)
    /\ [][(op' = "step" /\ Degenerate) =>
            /\ UNCHANGED StateVars
            /\ reward' = 0
            /\ steps' = steps + 1
            /\ current_event' \in Events]_vars

\* a node_failure event was handled while every node was already down
C10_Witness ==
    /\ op = "step" /\ handled_event = "node_failure"
    /\ info.node_failure = Absent /\ reward = 0
    /\ \A n \in Nodes : node_status[n] = 0

\* C11: for every event other than agent_arrival the action has no effect:
\* whatever a step call returns and leaves behind under one action, the same
\* call with the same draws returns and leaves behind under every other
\* action; for no_event the reward is 0 and node_status, node_occupancy and
\* num_agents are unchanged.  (The step was taken under action 0; the handler
\* is the only part of step that is given the action.)
C11_ActionIgnored ==
    [][(op' = "step" /\ current_event # "agent_arrival") =>
        /\ \A b \in 1 .. num_nodes : HandleEvent(b)
        /\ current_event = "no_event" => (reward' = 0 /\ UNCHANGED StateVars)]_vars

\* an agent has departed from one of two occupied nodes
C11_Witness ==
    /\ op = "step" /\ handled_event = "agent_departure"
    /\ Cardinality({n \in Nodes : node_status[n] = 1 /\ 2 * node_occupancy[n] < node_capacity[n]}) = 2
    /\ num_agents >= 1

\* C12: after reset, step returns terminated = FALSE on each of the first 99
\* calls and TRUE on the 100th, whatever the nodes and agents are; truncated
\* is always FALSE; each call advances the step counter by one.
C12_TerminatesAtHorizon ==
    /\ [](/\ truncated = FALSE
          /\ (op = "step" /\ steps < 100) => terminated = FALSE
          /\ (op = "step" /\ steps = 100) => terminated = TRUE
          /\ op = "reset" => (steps = 0 /\ terminated = FALSE))
    /\ [][op' = "step" => steps' = steps + 1]_vars

\* the 100th step call has returned terminated
C12_Witness == op = "step" /\ steps = 100 /\ prior_steps = 99 /\ terminated = TRUE

CanonicalStart ==
    /\ num_agents = 0
    /\ \A n \in Nodes : node_status[n] = 1 /\ node_occupancy[n] = 0
    /\ steps = 0
    /\ current_event = "no_event"

\* C13: reset() from any reachable state yields num_agents = 0, every node
\* active and empty, step counter 0 and current_event = no_event, and the
\* observation it returns reports the event no_event.
C13_ResetIsCanonical ==
    op = "reset" =>
        /\ CanonicalStart
        /\ GetObservation.event_onehot = <<0, 0, 0, 0, 1>>
        /\ GetObservation.agents[1] = 0

\* reset was called in the middle of an episode
C13_Witness == op = "reset" /\ prior_steps > 0 /\ prior_steps < max_steps

\* the rewards that handling event e can return from the current state
RewardsOfHandling(e) ==
    CASE e = "agent_arrival" ->
            {IF node_status[a] = 1 /\ 2 * node_occupancy[a] < node_capacity[a]
             THEN 2 ELSE -2 : a \in Nodes} \cup {-1}
      [] e = "node_failure" ->
            IF \E n \in Nodes : node_status[n] = 1
            THEN {-4 * node_occupancy[n] : n \in {m \in Nodes : node_status[m] = 1}}
            ELSE {0}
      [] e = "node_recovery" ->
            IF \E n \in Nodes : node_status[n] = 0 THEN {1} ELSE {0}
      [] OTHER -> {0}

\* C14 as stated: the reward of the first step call after reset is a reward of
\* handling the event generated inside that call.
C14_FirstRewardFromGeneratedEvent ==
    [][(op = "reset" /\ op' = "step") => reward' \in RewardsOfHandling(current_event')]_vars

\* C14 as amended: the reward of the first step call after reset is the reward
\* of handling the no_event that the reset observation reported, i.e. 0 with no
\* state change; every step call returns a reward of handling the event that was
\* current when it was called, and the event it generates is first handled by
\* the following call.
C14_FirstRewardFromResetEvent ==
    [][op' = "step" =>
        /\ reward' \in RewardsOfHandling(current_event)
        /\ op = "reset" => /\ current_event = "no_event"
                            /\ reward' = 0
                            /\ UNCHANGED StateVars]_vars

\* the first step call generated an arrival and still returned reward 0
C14_Witness ==
    /\ op = "step" /\ steps = 1 /\ handled_event = "no_event"
    /\ current_event = "agent_arrival" /\ reward = 0

\* C15: the normalized agent count num_agents / max_agents of every
\* observation lies in [0, 1], i.e. num_agents never exceeds max_agents, for
\* every configuration of num_nodes, capacity and max_agents.
C15_AgentCountNormalized ==
    Live => /\ 0 <= GetObservation.agents[1]
            /\ GetObservation.agents[1] <= GetObservation.agents[2]

Malformed ==
    \/ num_nodes <= 0
    \/ default_node_capacity <= 0
    \/ ~ValidDistribution(event_probabilities)

\* C20: constructing the environment with num_nodes <= 0, node_capacity <= 0
\* or a probability vector that is not a distribution ends in an error at
\* construction time: no reset observation or step is ever produced.
C20_MalformedConfigRejected == Malformed => op \in {"new", "init_error"}

\* C16: compute_returns_and_advantages(gamma, lambda) satisfies the backward
\* recursion for every buffer of length T >= 1: next_value is 0 at the last
\* index (also when it is not done) and the following value otherwise,
\* delta[t] = reward[t] + gamma * next_value[t] * (1 - done[t]) - value[t],
\* advantage[t] = delta[t] + gamma * lambda * (1 - done[t]) * advantage[t+1]
\* with 0 beyond the end, and return[t] = advantage[t] + value[t]; a length-1
\* buffer with done = 1 gives advantage r - v and return r.
C16_GaeRecursion ==
    (call.op = "compute" /\ Len(buffer.rewards) >= 1) =>
        LET T == Len(buffer.rewards)
            rewards == buffer.rewards
            values == buffer.values
            advantages == call.advantages
            returns == call.returns
            mask(t) == IF buffer.dones[t] THEN Zero ELSE One
            next_value(t) == IF t = T THEN Zero ELSE values[t + 1]
            next_adv(t) == IF t = T THEN Zero ELSE advantages[t + 1]
            delta(t) == RSub(RAdd(rewards[t], RMul(call.gamma, RMul(next_value(t), mask(t)))),
                             values[t])
        IN /\ Len(advantages) = T /\ Len(returns) = T
           /\ \A t \in 1 .. T :
                /\ advantages[t] =
                     RAdd(delta(t),
                          RMul(RMul(call.gamma, call.gae_lambda), RMul(mask(t), next_adv(t))))
                /\ returns[t] = RAdd(advantages[t], values[t])
           /\ (T = 1 /\ buffer.dones[1]) =>
                /\ advantages[1] = RSub(rewards[1], values[1])
                /\ returns[1] = rewards[1]

\* advantages were computed for three transitions, the second one done, the
\* last one not, with gamma = lambda = 1/2
C16_Witness ==
    /\ call.op = "compute" /\ Len(buffer.rewards) = 3
    /\ buffer.dones = <<FALSE, TRUE, FALSE>>
    /\ call.gamma = <<1, 2>> /\ call.gae_lambda = <<1, 2>>
    /\ call.advantages[3] # Zero

\* C17: after any sequence of add, clear, get and compute calls the six lists
\* have the same length, which is len(buffer) and the number of add calls since
\* the last clear; get and compute_returns_and_advantages leave the lists alone.
C17_ListsSameLength ==
    /\ [](/\ Len(buffer.states) = Len(buffer.actions)
          /\ Len(buffer.actions) = Len(buffer.rewards)
          /\ Len(buffer.rewards) = Len(buffer.log_probs)
          /\ Len(buffer.log_probs) = Len(buffer.values)
          /\ Len(buffer.values) = Len(buffer.dones)
          /\ BufferLen = Len(buffer.dones)
          /\ BufferLen = Len(call.added))
    /\ [][call'.op \in {"get", "compute"} => UNCHANGED buffer]_vars

\* get() on a buffer refilled with two transitions after a clear
C17_Witness ==
    /\ call.op = "get" /\ call.cleared /\ Len(call.added) = 2 /\ Len(call.batch[3]) = 2

\* the lists a newly constructed buffer holds after add was called with trs
FreshAfter(trs) ==
    [states |-> [i \in 1 .. Len(trs) |-> trs[i].state],
     actions |-> [i \in 1 .. Len(trs) |-> trs[i].action],
     rewards |-> [i \in 1 .. Len(trs) |-> trs[i].reward],
     log_probs |-> [i \in 1 .. Len(trs) |-> trs[i].log_prob],
     values |-> [i \in 1 .. Len(trs) |-> trs[i].value],
     dones |-> [i \in 1 .. Len(trs) |-> trs[i].done]]

\* C18: clear() from any buffer state gives len(buffer) = 0 with every list
\* empty, a second clear() changes nothing, and the adds made after a clear
\* leave the buffer as the same adds leave a new buffer.
C18_ClearGivesFreshBuffer ==
    /\ (call.op = "clear" => /\ BufferLen = 0
                             /\ buffer = FreshAfter(<< >>)
                             /\ ENABLED (Clear /\ UNCHANGED buffer))
    /\ buffer = FreshAfter(call.added)

\* two transitions were added after a clear of a non-empty buffer
C18_Witness ==
    /\ call.op = "add" /\ call.cleared /\ Len(call.added) = 2 /\ BufferLen = 2
    /\ buffer.rewards[1] # buffer.rewards[2]

\* C19: in the loops of train.py and demo.py trainer.update is never called
\* with an empty buffer, for every total_timesteps and update_interval: the
\* buffer handed to every update call holds at least one transition.
C19_UpdateNeverOnEmptyBuffer ==
    /\ driver.update_len # Absent => driver.update_len >= 1
    /\ call.op = "update" => (BufferLen >= 1 /\ driver.update_len = BufferLen)

\* train(): the last update of a run received fewer transitions than
\* update_interval
C19_Witness ==
    /\ driver.prog = "train" /\ driver.pc = "clear" /\ call.op = "update"
    /\ driver.update_len = 1 /\ driver.update_interval = 2
    /\ driver.global_step = driver.total_timesteps

RatioOutside ==
    \/ RLess(trainer.ratio, RSub(One, trainer.clip_epsilon))
    \/ RLess(RAdd(One, trainer.clip_epsilon), trainer.ratio)

\* C22 as stated: for every sample whose ratio lies outside [1 - eps, 1 + eps]
\* the per-sample term of the policy loss is the clipped branch
\* clip(ratio, 1 - eps, 1 + eps) * advantage.
C22_OutsideUsesClippedBranch ==
    (trainer.op = "loss" /\ RatioOutside) => trainer.term = trainer.surr2

\* C22 as amended: the per-sample term is min(ratio * advantage,
\* clip(ratio, 1 - eps, 1 + eps) * advantage), so it never exceeds the clipped
\* branch; for a ratio outside [1 - eps, 1 + eps] it is the clipped branch
\* exactly when ratio > 1 + eps and advantage >= 0 or ratio < 1 - eps and
\* advantage <= 0, and otherwise it is the unclipped ratio * advantage,
\* which is then smaller than the clipped branch.
C22_MinOfSurrogates ==
    trainer.op = "loss" =>
        LET ratio == trainer.ratio
            adv == trainer.advantage
            lo == RSub(One, trainer.clip_epsilon)
            hi == RAdd(One, trainer.clip_epsilon)
            clipped == RMul(IF RLess(ratio, lo) THEN lo ELSE IF RLess(hi, ratio) THEN hi ELSE ratio,
                            adv)
            rewarded == \/ RLess(hi, ratio) /\ ~RLess(adv, Zero)
                        \/ RLess(ratio, lo) /\ ~RLess(Zero, adv)
        IN /\ trainer.surr2 = clipped
           /\ ~RLess(clipped, trainer.term)
           /\ trainer.term \in {RMul(ratio, adv), clipped}
           /\ RatioOutside =>
                IF rewarded THEN trainer.term = clipped
                ELSE trainer.term = RMul(ratio, adv) /\ RLess(trainer.term, clipped)

\* a ratio above 1 + eps with a negative advantage: the unclipped branch is
\* the one used
C22_Witness ==
    /\ trainer.op = "loss"
    /\ RLess(RAdd(One, trainer.clip_epsilon), trainer.ratio)
    /\ RLess(trainer.advantage, Zero)
    /\ trainer.term = RMul(trainer.ratio, trainer.advantage)
    /\ trainer.term # trainer.surr2

\* C23: the training loop is collect, then update, then clear: an update is
\* followed by the clear with no environment step and no add in between; the
\* buffer is empty whenever a collection round starts; every update receives
\* exactly update_interval transitions, except possibly the last one of the
\* run, which receives fewer; every transition added is handed to exactly one
\* update: the batch of an update is what was added since the last clear, the
\* transitions handed over so far are all those added, and none is left in
\* the buffer when the loop ends.
C23_CollectUpdateClear ==
    /\ [](driver.prog = "train" =>
            /\ (driver.pc = "for" /\ driver.loop_i = 0) => BufferLen = 0
            /\ driver.pc = "clear" =>
                 /\ call.op = "update"
                 /\ call.batch = BufferGet
                 /\ buffer = FreshAfter(call.added)
                 /\ driver.update_len = BufferLen
                 /\ \/ driver.update_len = driver.update_interval
                    \/ /\ driver.update_len < driver.update_interval
                       /\ driver.global_step >= driver.total_timesteps
            /\ driver.global_step =
                 driver.trained + (IF driver.pc = "clear" THEN 0 ELSE BufferLen)
            /\ driver.pc = "end" => (BufferLen = 0 /\ driver.trained = driver.global_step))
    /\ [][(driver.prog = "train" /\ call.op = "update") =>
            (call'.op = "clear" /\ BufferLen' = 0 /\ UNCHANGED envVars)]_vars

\* a run of three steps with update_interval 2 has ended: an update of two
\* transitions, then the last one of one
C23_Witness ==
    /\ driver.prog = "train" /\ driver.pc = "end"
    /\ driver.update_interval = 2 /\ driver.total_timesteps = 3
    /\ driver.trained = 3 /\ driver.update_len = 1

\* ceil(T / B)
BatchesPerEpoch == (trainer.T + trainer.batch_size - 1) \div trainer.batch_size

\* C24: for T >= 1 transitions and batch_size B >= 1, the mini-batches of
\* every epoch partition the T indices: when an epoch ends every index is in
\* exactly one of its ceil(T / B) mini-batches, every mini-batch has B indices
\* except possibly the last, which has T mod B when that is not 0; the
\* optimizer steps and num_updates both stand at ceil(T / B) per epoch done,
\* and the divisor of the returned statistics is update_epochs * ceil(T / B).
C24_EpochsPartitionIndices ==
    trainer.op \in {"update", "returned", "error"} =>
        LET T == trainer.T
            B == trainer.batch_size
            bs == trainer.batches
        IN /\ (trainer.pc = "epoch" /\ trainer.epoch >= 1) =>
                /\ Len(bs) = BatchesPerEpoch
                /\ \A i \in 0 .. T - 1 :
                     Cardinality({<<b, k>> \in (1 .. Len(bs)) \X (1 .. B) :
                                     k <= Len(bs[b]) /\ bs[b][k] = i}) = 1
                /\ \A b \in 1 .. Len(bs) - 1 : Len(bs[b]) = B
                /\ Len(bs[Len(bs)]) = (IF T % B = 0 THEN B ELSE T % B)
           /\ trainer.pc = "epoch" =>
                /\ trainer.num_updates = trainer.epoch * BatchesPerEpoch
                /\ trainer.optimizer_steps = trainer.num_updates
           /\ trainer.pc \in {"stats", "return", "raised"} =>
                /\ trainer.num_updates = trainer.update_epochs * BatchesPerEpoch
                /\ trainer.optimizer_steps = trainer.num_updates
           /\ trainer.pc = "return" => trainer.divisor = trainer.update_epochs * BatchesPerEpoch

\* two epochs over three transitions in mini-batches of two have returned
\* their statistics: four optimizer steps, the last mini-batch of one index
C24_Witness ==
    /\ trainer.op = "returned" /\ trainer.T = 3 /\ trainer.batch_size = 2
    /\ trainer.update_epochs = 2 /\ trainer.divisor = 4
    /\ Len(trainer.batches) = 2 /\ Len(trainer.batches[2]) = 1

\* C25: a stored done cuts credit assignment at its index: for every t with
\* done[t], advantage[t] = reward[t] - value[t] and return[t] = reward[t],
\* and the advantages and returns at the indices up to t are those the same
\* call computes on the buffer cut after t, whatever the rewards, values and
\* dones of the transitions after t are.
C25_DoneCutsCredit ==
    call.op = "compute" =>
        \A t \in 1 .. Len(buffer.dones) :
            buffer.dones[t] =>
                LET cut == GaeLoop(SubSeq(buffer.rewards, 1, t), SubSeq(buffer.values, 1, t),
                                   SubSeq(buffer.dones, 1, t), call.gamma, call.gae_lambda)
                IN /\ call.advantages[t] = RSub(buffer.rewards[t], buffer.values[t])
                   /\ call.returns[t] = buffer.rewards[t]
                   /\ \A i \in 1 .. t :
                        /\ call.advantages[i] = cut[i]
                        /\ call.returns[i] = RAdd(cut[i], buffer.values[i])

\* returns computed with gamma = 1 for a buffer whose first transition is
\* done and is followed by two transitions of non-zero value
C25_Witness ==
    /\ call.op = "compute" /\ Len(buffer.dones) = 3
    /\ buffer.dones = <<TRUE, FALSE, FALSE>>
    /\ buffer.values[2] # Zero /\ buffer.values[3] # Zero
    /\ call.gamma = One /\ call.gae_lambda = One

\* C27: for every total_timesteps >= 0 and update_interval >= 1 the training
\* loop terminates, and when it has global_step is max(total_timesteps, 0)
\* exactly; the environment steps taken and the transitions added, which
\* global_step counts, never exceed it on the way.
TrainArgsInRange ==
    /\ driver.prog = "train"
    /\ driver.total_timesteps >= 0
    /\ driver.update_interval >= 1

C27_TerminatesAtTotal ==
    /\ [](TrainArgsInRange =>
            /\ driver.global_step <= Max(driver.total_timesteps, 0)
            /\ driver.pc = "end" =>
                  /\ driver.global_step = Max(driver.total_timesteps, 0)
                  /\ driver.trained = driver.global_step)
    /\ (TrainArgsInRange ~> driver.pc = "end")

C27_Witness ==
    /\ TrainArgsInRange /\ driver.pc = "end"
    /\ driver.total_timesteps = MaxTimesteps
    /\ driver.update_interval = MaxUpdateInterval
    /\ driver.total_timesteps % driver.update_interval # 0
    /\ driver.global_step = MaxTimesteps

\* C26: in the training loop the episode statistics are emitted exactly once
\* for each step that returns done and never otherwise; the length emitted is
\* the number of steps since the previous reset, always 100, and the reward
\* emitted is the sum of the rewards of those steps, policy updates in
\* between or not; the environment is reset at those boundaries and, once
\* collection has begun, nowhere else.
DoneReturned == op = "step" /\ (terminated \/ truncated)

Emitted == Len(telemetry.episode_rewards)

C26_TelemetryAtBoundaries ==
    /\ [](telemetry.followed =>
            /\ telemetry.episode_length = steps
            /\ telemetry.episode_reward = telemetry.env_return
            /\ telemetry.episode_num = Emitted
            /\ Len(telemetry.episode_lengths) = Emitted)
    /\ [][telemetry.followed =>
            IF DoneReturned
            THEN /\ telemetry.episode_rewards' =
                        Append(telemetry.episode_rewards, telemetry.env_return)
                 /\ telemetry.episode_lengths' = Append(telemetry.episode_lengths, steps)
                 /\ steps = max_steps
                 /\ telemetry.resets' = telemetry.resets + 1
                 /\ op' = "reset"
            ELSE /\ telemetry.episode_rewards' = telemetry.episode_rewards
                 /\ telemetry.episode_lengths' = telemetry.episode_lengths
                 /\ telemetry.resets' = telemetry.resets \/ driver.pc = "start"]_vars

C26_Witness ==
    /\ telemetry.followed
    /\ driver.pc = "end"
    /\ Emitted = 1
    /\ telemetry.episode_rewards[1] < 0
    /\ telemetry.episode_lengths[1] = max_steps
    /\ driver.update_interval < max_steps
    /\ driver.trained = max_steps + 1

====
